---- MODULE Spec2Model ----
(***************************************************************************)
(* Model of the QuizEngine class of src/scripts/quizEngine.js: the quiz    *)
(* session state machine and the answer-option generator.                  *)
(*                                                                         *)
(* JavaScript objects are modelled by value, with the one alias that the   *)
(* engine keeps made explicit: this.currentWord is a reference to a word   *)
(* object.  It is either null, the object at an index of this.vocabulary,  *)
(* or an object that is no longer in this.vocabulary ("detached": the      *)
(* vocabulary array was replaced by initialize or importState while the    *)
(* reference was kept).                                                    *)
(*                                                                         *)
(* Such an object is reachable through this.currentWord only and none of   *)
(* its fields is read by an operation modelled here, so it has no fields   *)
(* in the model.  this.answeredWords is written by submitAnswer and        *)
(* resetProgress and read by exportState only; no result of an operation   *)
(* depends on it and it is not part of the model.                          *)
(*                                                                         *)
(* this.currentOptions is assigned by getNextWord the array that the       *)
(* returned question carries as options and is read by no method: the      *)
(* model keeps that array in ret.question.options only.                    *)
(*                                                                         *)
(* The array a caller hands to initialize is tracked in callerList, with    *)
(* sharesCallerList telling whether the session works on the caller's own  *)
(* objects, in the specification SpecCaller only; the other specifications *)
(* have no caller that keeps its list.                                     *)
(*                                                                         *)
(* A JavaScript number field that can be undefined or NaN is an integer    *)
(* with the two sentinels Undefined and NaN below zero.                    *)
(***************************************************************************)
EXTENDS Integers, Sequences, FiniteSets, TLC

VARIABLES vocabulary, currentWord, correctAnswer, stats, ret,
          callerList, sharesCallerList,
          localStorage, currentScreen, answerButtonsDisabled,
          autoAdvanceTimer, pendingTimeouts, isUploading, uploadsInProgress,
          handler, callArg, callResult

\* callerList: the array a caller passed to initialize and still holds;
\* sharesCallerList: this.vocabulary is that array with those objects
callerVars == <<callerList, sharesCallerList>>

\* the page of src/scripts/app.js around the session, in the specification
\* SpecApp only.  localStorage: the records vocabData, progress and settings;
\* currentScreen: ui.currentScreen, or "unloaded" while no page is loaded;
\* answerButtonsDisabled: the disabled attribute of the answer buttons;
\* autoAdvanceTimer: ui.autoAdvanceTimer holds the id of a timeout;
\* pendingTimeouts: the timeouts of startAutoAdvance the browser has pending;
\* isUploading: ui.isUploading; uploadsInProgress: the calls of
\* handleFileUpload that wait for parseFile;
\* handler: the handler that ran last and whether it ended in an exception
appVars == <<localStorage, currentScreen, answerButtonsDisabled,
             autoAdvanceTimer, pendingTimeouts, isUploading,
             uploadsInProgress, handler>>

\* a call of a function that has no state: its argument and what it returned
pureVars == <<callArg, callResult>>

\* what a call of a session method alone leaves as it is
otherVars == <<callerVars, appVars, pureVars>>

\* what a handler of the page leaves as it is
besidePage == <<callerVars, pureVars>>

\* what a caller of the session leaves as it is
besideCaller == <<appVars, pureVars>>

vars == <<vocabulary, currentWord, correctAnswer, stats, ret, callerVars,
          appVars, pureVars>>

(***************************************************************************)
(* Bounds and input domains                                                *)
(***************************************************************************)
\* boundedSubmitAnswer is not taken once totalAnswered or currentStreak has
\* reached this value
MaxAnswered == 2

\* the value of a number field that was never assigned
Undefined == -1
\* the value of undefined++ and of NaN++
NaN == -2

\* an input item as a caller hands it over: mastered is "true", "false" or
\* "missing" (the field is absent)
Item(f, e, m) == [french |-> f, english |-> e, mastered |-> m]

\* the four-word list of the concrete scenario: all targets distinct
ListDistinct4 ==
    << Item("chat", "cat", "false"), Item("chien", "dog", "false"),
       Item("maison", "house", "false"), Item("voiture", "car", "missing") >>

\* five words, four distinct targets, one target twice
ListDup5 ==
    << Item("chat", "cat", "false"), Item("chien", "dog", "false"),
       Item("toutou", "dog", "false"), Item("maison", "house", "false"),
       Item("voiture", "car", "true") >>

\* two words only, one marked mastered by the caller
ListShort2 ==
    << Item("chat", "cat", "true"), Item("chien", "dog", "missing") >>

\* the lists of the specification Spec (ListDup5 is a list of SpecOptions)
InputLists == {ListDistinct4, ListShort2}

\* an argument of initialize: isArray is Array.isArray(vocabulary)
Arg(isArray, items) == [isArray |-> isArray, items |-> items]

InitializeArgs ==
    {Arg(TRUE, list) : list \in InputLists}
        \cup {Arg(TRUE, << >>), Arg(FALSE, << >>)}

\* arguments of markWordAsMastered: words of the lists and a word of none
Frenches == {"chat", "chien", "toutou", "maison", "voiture", "loup"}
\* a text that is the answer of no item
WrongAnswer == "?"

(***************************************************************************)
(* Helpers                                                                 *)
(***************************************************************************)
Min(a, b) == IF a < b THEN a ELSE b

\* x++ on a number field
Inc(x) == IF x \in {Undefined, NaN} THEN NaN ELSE x + 1

NullRef == [kind |-> "null", idx |-> 0]
VocabRef(i) == [kind |-> "vocab", idx |-> i]
DetachedRef == [kind |-> "detached", idx |-> 0]

\* this.currentWord after this.vocabulary was replaced by other objects
Detach(ref) == IF ref.kind = "vocab" THEN DetachedRef ELSE ref

\* the indices of the items of a list that satisfy mastered = b
IndicesWith(vocab, b) == {i \in 1..Len(vocab) : vocab[i].mastered = b}

\* this.vocabulary.filter(word => word.mastered).length
MasteredCount(vocab) == Cardinality(IndicesWith(vocab, TRUE))

\* updateStats() without the recomputation
updateStatsKeep(s, vocab) == s

\* updateStats(): masteredWords is recomputed from the vocabulary
updateStats(s, vocab) == [s EXCEPT !.masteredWords = MasteredCount(vocab)]

Swap(s, i, j) == [s EXCEPT ![i] = s[j], ![j] = s[i]]

RECURSIVE ShuffleFrom(_, _)
\* the loop of shuffleArray from position i downwards, every draw of j
ShuffleFrom(s, i) ==
    IF i <= 1 THEN {s}
    ELSE UNION { ShuffleFrom(Swap(s, i, j), i - 1) : j \in 1..i }

\* a shuffle whose loop starts one position below the last
shuffleArrayFromSecond(array) == ShuffleFrom(array, Len(array) - 1)

\* shuffleArray(array): the set of the arrays it can return
shuffleArray(array) == ShuffleFrom(array, Len(array))

\* the other answers drawn from the unmastered items only
otherAnswersUnmastered(word, vocab) ==
    LET others == SelectSeq(vocab, LAMBDA item :
                      item.english # word.english /\ ~item.mastered)
    IN  [i \in 1..Len(others) |-> others[i].english]

\* the english fields of the items whose english differs from the word's
otherAnswers(word, vocab) ==
    LET others == SelectSeq(vocab, LAMBDA item : item.english # word.english)
    IN  [i \in 1..Len(others) |-> others[i].english]

\* generateOptions(word): the set of the option arrays it can return
generateOptions(word, vocab) ==
    UNION { shuffleArray(<<word.english>> \o SubSeq(sh, 1, Min(3, Len(sh))))
            : sh \in shuffleArray(otherAnswers(word, vocab)) }

\* every index, mastered or not
availableWordsAll(vocab) == 1..Len(vocab)

\* const availableWords = this.vocabulary.filter(word => !word.mastered)
availableWords(vocab) == IndicesWith(vocab, FALSE)

\* the returned record with the two texts of the word exchanged
QuestionSwapped(word, options) ==
    [french |-> word.english, options |-> options, correctAnswer |-> word.french]

\* the record getNextWord returns for a word and its options
Question(word, options) ==
    [french |-> word.french, options |-> options, correctAnswer |-> word.english]

\* a check that passes with no current word too
hasCurrentWordAlways(ref) == TRUE

\* the negation of !this.currentWord in submitAnswer
hasCurrentWord(ref) == ref.kind # "null"

\* Math.floor in place of Math.round
RoundPercentDown(a, b) == (100 * a) \div b

\* Math.round((a / b) * 100) for integers a >= 0, b > 0
RoundPercent(a, b) == (200 * a + b) \div (2 * b)

\* getProgress()
getProgress ==
    [masteredCount |-> stats.masteredWords,
     totalCount |-> stats.totalWords,
     percentage |-> IF stats.totalWords > 0
                    THEN RoundPercent(stats.masteredWords, stats.totalWords)
                    ELSE 0,
     currentStreak |-> stats.currentStreak,
     accuracy |-> IF stats.totalAnswered > 0
                  THEN IF stats.correctAnswers \in {Undefined, NaN}
                       THEN NaN
                       ELSE RoundPercent(stats.correctAnswers, stats.totalAnswered)
                  ELSE 0]

\* a completion test on the streak
isCompleteByStreak == stats.currentStreak = stats.totalWords

\* a completion test on the number of correct answers
isCompleteByAnswers == stats.correctAnswers = stats.totalWords

\* a completion test on the number of answers
isCompleteAllAnswered == stats.totalAnswered = stats.totalWords

\* isComplete()
isComplete == stats.masteredWords = stats.totalWords

\* getVocabulary(): a new array of the same word objects
getVocabulary == vocabulary

\* getWordByFrench(french): index of the first match, 0 for null
getWordByFrench(french) ==
    LET hits == {i \in 1..Len(vocabulary) : vocabulary[i].french = french}
    IN  IF hits = {} THEN 0 ELSE CHOOSE i \in hits : \A k \in hits : i <= k

NoQuestion == [french |-> "", options |-> << >>, correctAnswer |-> ""]
NoResult == [isCorrect |-> FALSE, correctAnswer |-> "", selectedAnswer |-> "",
             stats |-> [totalWords |-> 0, masteredWords |-> 0,
                        currentStreak |-> 0, totalAnswered |-> 0,
                        correctAnswers |-> 0]]

\* the result record with the correct answer in place of the selected one
ResultEchoCorrect(isCorrect, correct, selected, s) ==
    [isCorrect |-> isCorrect, correctAnswer |-> correct,
     selectedAnswer |-> correct, stats |-> s]

\* the record submitAnswer returns; stats: { ...this.stats } is a new object
\* with the values the counters have at the return
Result(isCorrect, correct, selected, s) ==
    [isCorrect |-> isCorrect, correctAnswer |-> correct,
     selectedAnswer |-> selected, stats |-> s]

\* what the last call returned: threw (an Error was thrown), isNull (null was
\* returned), question (getNextWord), result (submitAnswer), flag
\* (markWordAsMastered)
Ret(op, threw, isNull, question, result, flag) ==
    [op |-> op, threw |-> threw, isNull |-> isNull, question |-> question,
     result |-> result, flag |-> flag]

\* a record of localStorage that is not there
Absent(value) == [present |-> FALSE, value |-> value]
\* a record of localStorage with its parsed value
Present(value) == [present |-> TRUE, value |-> value]

NoProgress == [masteredCount |-> 0, totalCount |-> 0, percentage |-> 0]

\* localStorage without vocabData and progress; settings: a settings record
\* is there
EmptyStorage(settings) ==
    [vocabData |-> Absent(<< >>), progress |-> Absent(NoProgress),
     settings |-> settings]

\* no function without state has been called
NoCall == [called |-> FALSE]

\* the handler that ran last; threw: it ended in an exception nobody caught
Handler(name, threw) == [name |-> name, threw |-> threw]

(***************************************************************************)
(* Initial state: the constructor                                          *)
(***************************************************************************)
Init ==
    /\ vocabulary = << >>
    /\ currentWord = NullRef
    /\ correctAnswer = ""
    /\ stats = [totalWords |-> 0, masteredWords |-> 0, currentStreak |-> 0,
                totalAnswered |-> 0, correctAnswers |-> 0]
    /\ ret = Ret("constructor", FALSE, FALSE, NoQuestion, NoResult, FALSE)
    /\ callerList = << >>
    /\ sharesCallerList = FALSE
    /\ localStorage = EmptyStorage(FALSE)
    /\ currentScreen = "unloaded"
    /\ answerButtonsDisabled = FALSE
    /\ autoAdvanceTimer = FALSE
    /\ pendingTimeouts = 0
    /\ isUploading = FALSE
    /\ uploadsInProgress = 0
    /\ handler = Handler("", FALSE)
    /\ callArg = NoCall
    /\ callResult = NoCall

(***************************************************************************)
(* Operations                                                              *)
(***************************************************************************)
\* a copy in which only an explicit false is unmastered
CopyItemUnlessFalse(item) ==
    [french |-> item.french, english |-> item.english,
     mastered |-> (item.mastered # "false")]

\* the copy initialize makes of one item: mastered: item.mastered || false
CopyItem(item) ==
    [french |-> item.french, english |-> item.english,
     mastered |-> (item.mastered = "true")]

\* a check that rejects a non-array only
isInvalidVocabularyNonArray(arg) == ~arg.isArray

\* !Array.isArray(vocabulary) || vocabulary.length === 0
isInvalidVocabulary(arg) == ~arg.isArray \/ Len(arg.items) = 0

\* initialize(vocabulary)
initialize(arg) ==
    IF isInvalidVocabulary(arg)
    THEN /\ ret' = Ret("initialize", TRUE, FALSE, NoQuestion, NoResult, FALSE)
         /\ UNCHANGED <<vocabulary, currentWord, correctAnswer, stats>>
    ELSE LET copy == [i \in 1..Len(arg.items) |-> CopyItem(arg.items[i])]
         IN  /\ vocabulary' = copy
             /\ currentWord' = Detach(currentWord)
             /\ stats' = updateStats(
                    [stats EXCEPT !.totalWords = Len(copy),
                                  !.masteredWords = MasteredCount(copy)],
                    copy)
             /\ ret' = Ret("initialize", FALSE, FALSE, NoQuestion, NoResult,
                           FALSE)
             /\ UNCHANGED correctAnswer

\* getNextWord() that ends the streak when it replaces a current question
getNextWordSkipPenalty ==
    LET available == availableWords(vocabulary)
    IN  IF available = {}
        THEN /\ ret' = Ret("getNextWord", FALSE, TRUE, NoQuestion, NoResult, FALSE)
             /\ UNCHANGED <<vocabulary, currentWord, correctAnswer, stats>>
        ELSE \E i \in available :
             \E options \in generateOptions(vocabulary[i], vocabulary) :
                /\ currentWord' = VocabRef(i)
                /\ correctAnswer' = vocabulary[i].english
                /\ stats' = IF hasCurrentWord(currentWord)
                            THEN [stats EXCEPT !.currentStreak = 0]
                            ELSE stats
                /\ ret' = Ret("getNextWord", FALSE, FALSE,
                              Question(vocabulary[i], options), NoResult,
                              FALSE)
                /\ UNCHANGED vocabulary

\* getNextWord()
getNextWord ==
    LET available == availableWords(vocabulary)
    IN  IF available = {}
        THEN /\ ret' = Ret("getNextWord", FALSE, TRUE, NoQuestion, NoResult, FALSE)
             /\ UNCHANGED <<vocabulary, currentWord, correctAnswer, stats>>
        ELSE \E i \in available :
             \E options \in generateOptions(vocabulary[i], vocabulary) :
                /\ currentWord' = VocabRef(i)
                /\ correctAnswer' = vocabulary[i].english
                /\ ret' = Ret("getNextWord", FALSE, FALSE,
                              Question(vocabulary[i], options), NoResult,
                              FALSE)
                /\ UNCHANGED <<vocabulary, stats>>

\* the current word's flag follows the last answer
masterCurrentWordFollow(vocab, ref, isCorrect) ==
    IF ref.kind = "vocab"
    THEN [vocab EXCEPT ![ref.idx].mastered = isCorrect]
    ELSE vocab

\* if (isCorrect) this.currentWord.mastered = true (on a detached object the
\* assignment changes no item of the vocabulary)
masterCurrentWord(vocab, ref, isCorrect) ==
    IF isCorrect /\ ref.kind = "vocab"
    THEN [vocab EXCEPT ![ref.idx].mastered = TRUE]
    ELSE vocab

\* submitAnswer(selectedAnswer) without this.stats.currentStreak = 0
submitAnswerKeepStreak(selectedAnswer) ==
    IF ~hasCurrentWord(currentWord)
    THEN /\ ret' = Ret("submitAnswer", TRUE, FALSE, NoQuestion, NoResult, FALSE)
         /\ UNCHANGED <<vocabulary, currentWord, correctAnswer, stats>>
    ELSE LET isCorrect == selectedAnswer = correctAnswer
             vocab1 == masterCurrentWord(vocabulary, currentWord, isCorrect)
             stats1 == IF isCorrect
                       THEN [stats EXCEPT
                               !.totalAnswered = Inc(@),
                               !.masteredWords = Inc(@),
                               !.currentStreak = Inc(@),
                               !.correctAnswers = Inc(@)]
                       ELSE [stats EXCEPT !.totalAnswered = Inc(@)]
             stats2 == updateStats(stats1, vocab1)
         IN  /\ vocabulary' = vocab1
             /\ stats' = stats2
             /\ ret' = Ret("submitAnswer", FALSE, FALSE, NoQuestion,
                           Result(isCorrect, correctAnswer, selectedAnswer,
                                  stats2),
                           FALSE)
             /\ UNCHANGED <<currentWord, correctAnswer>>

\* submitAnswer(selectedAnswer)
submitAnswer(selectedAnswer) ==
    IF ~hasCurrentWord(currentWord)
    THEN /\ ret' = Ret("submitAnswer", TRUE, FALSE, NoQuestion, NoResult, FALSE)
         /\ UNCHANGED <<vocabulary, currentWord, correctAnswer, stats>>
    ELSE LET isCorrect == selectedAnswer = correctAnswer
             vocab1 == masterCurrentWord(vocabulary, currentWord, isCorrect)
             stats1 == IF isCorrect
                       THEN [stats EXCEPT
                               !.totalAnswered = Inc(@),
                               !.masteredWords = Inc(@),
                               !.currentStreak = Inc(@),
                               !.correctAnswers = Inc(@)]
                       ELSE [stats EXCEPT
                               !.totalAnswered = Inc(@),
                               !.currentStreak = 0]
             stats2 == updateStats(stats1, vocab1)
         IN  /\ vocabulary' = vocab1
             /\ stats' = stats2
             /\ ret' = Ret("submitAnswer", FALSE, FALSE, NoQuestion,
                           Result(isCorrect, correctAnswer, selectedAnswer,
                                  stats2),
                           FALSE)
             /\ UNCHANGED <<currentWord, correctAnswer>>

\* submitAnswer while the counters it raises are below the bound
boundedSubmitAnswer(selectedAnswer) ==
    /\ hasCurrentWord(currentWord)
        => /\ stats.totalAnswered < MaxAnswered
           /\ stats.currentStreak < MaxAnswered
    /\ submitAnswer(selectedAnswer)

\* resetProgress() without the reset of the streak
resetProgressKeepStreak ==
    LET vocab1 == [i \in 1..Len(vocabulary) |->
                     [vocabulary[i] EXCEPT !.mastered = FALSE]]
    IN  /\ vocabulary' = vocab1
        /\ stats' = updateStats([stats EXCEPT !.masteredWords = 0,
                                              !.totalAnswered = 0,
                                              !.correctAnswers = 0],
                                vocab1)
        /\ ret' = Ret("resetProgress", FALSE, FALSE, NoQuestion, NoResult, FALSE)
        /\ UNCHANGED <<currentWord, correctAnswer>>

\* resetProgress() with word.mastered = !word.mastered
resetProgressToggle ==
    LET vocab1 == [i \in 1..Len(vocabulary) |->
                     [vocabulary[i] EXCEPT !.mastered = ~@]]
    IN  /\ vocabulary' = vocab1
        /\ stats' = updateStats([stats EXCEPT !.masteredWords = 0,
                                              !.currentStreak = 0,
                                              !.totalAnswered = 0,
                                              !.correctAnswers = 0],
                                vocab1)
        /\ ret' = Ret("resetProgress", FALSE, FALSE, NoQuestion, NoResult, FALSE)
        /\ UNCHANGED <<currentWord, correctAnswer>>

\* resetProgress()
resetProgress ==
    LET vocab1 == [i \in 1..Len(vocabulary) |->
                     [vocabulary[i] EXCEPT !.mastered = FALSE]]
    IN  /\ vocabulary' = vocab1
        /\ stats' = updateStats([stats EXCEPT !.masteredWords = 0,
                                              !.currentStreak = 0,
                                              !.totalAnswered = 0,
                                              !.correctAnswers = 0],
                                vocab1)
        /\ ret' = Ret("resetProgress", FALSE, FALSE, NoQuestion, NoResult, FALSE)
        /\ UNCHANGED <<currentWord, correctAnswer>>

\* markWordAsMastered(french)
markWordAsMastered(french) ==
    LET i == getWordByFrench(french)
    IN  IF i # 0 /\ ~vocabulary[i].mastered
        THEN LET vocab1 == [vocabulary EXCEPT ![i].mastered = TRUE]
             IN  /\ vocabulary' = vocab1
                 /\ stats' = updateStats(stats, vocab1)
                 /\ ret' = Ret("markWordAsMastered", FALSE, FALSE, NoQuestion,
                               NoResult, TRUE)
                 /\ UNCHANGED <<currentWord, correctAnswer>>
        ELSE /\ ret' = Ret("markWordAsMastered", FALSE, FALSE, NoQuestion,
                           NoResult, FALSE)
             /\ UNCHANGED <<vocabulary, currentWord, correctAnswer, stats>>

\* a state object handed to importState.  vocabulary.alias: the array holds
\* the session's own word objects (it came from exportState of this session);
\* otherwise its objects are new ones (parsed from storage)
State(hasVocabulary, alias, items, hasStats, value) ==
    [vocabulary |-> [present |-> hasVocabulary, alias |-> alias, items |-> items],
     stats |-> [present |-> hasStats, value |-> value]]

\* an export that leaves the counters out
exportStateNoStats == State(TRUE, TRUE, getVocabulary, FALSE, stats)

\* exportState(): vocabulary: this.getVocabulary(), stats: { ...this.stats }
exportState == State(TRUE, TRUE, getVocabulary, TRUE, stats)

\* a list as storage returns it: mastered is a boolean in every item
Stored(list) == [i \in 1..Len(list) |-> CopyItem(list[i])]

\* the stored list: the four-word list with two words mastered
StoredList ==
    [Stored(ListDistinct4) EXCEPT ![1].mastered = TRUE, ![2].mastered = TRUE]

\* the progress record of storage used as stats: it has the fields
\* masteredCount, totalCount, percentage and lastUpdated and none of the
\* fields the engine reads
ProgressAsStats ==
    [totalWords |-> Undefined, masteredWords |-> Undefined,
     currentStreak |-> Undefined, totalAnswered |-> Undefined,
     correctAnswers |-> Undefined]

\* a stats record whose masteredWords does not match any list
EditedStats ==
    [totalWords |-> 4, masteredWords |-> 3, currentStreak |-> 0,
     totalAnswered |-> 0, correctAnswers |-> 0]

\* the states importState is called with: the session's own export, the
\* stored list with the stored progress record (as checkExistingData passes
\* them), the stored list alone, an edited stats record alone
ImportStates ==
    {exportState,
     State(TRUE, FALSE, StoredList, TRUE, ProgressAsStats),
     State(TRUE, FALSE, StoredList, FALSE, ProgressAsStats),
     State(FALSE, FALSE, << >>, TRUE, EditedStats)}

\* importState(state)
importState(state) ==
    LET vocab1 == IF state.vocabulary.present
                  THEN state.vocabulary.items ELSE vocabulary
        stats1 == IF state.stats.present THEN state.stats.value ELSE stats
    IN  /\ vocabulary' = vocab1
        /\ currentWord' = IF state.vocabulary.present /\ ~state.vocabulary.alias
                          THEN Detach(currentWord) ELSE currentWord
        /\ stats' = updateStats(stats1, vocab1)
        /\ ret' = Ret("importState", FALSE, FALSE, NoQuestion, NoResult, FALSE)
        /\ UNCHANGED correctAnswer

\* this.stats as the constructor sets it
ConstructorStats ==
    [totalWords |-> 0, masteredWords |-> 0, currentStreak |-> 0,
     totalAnswered |-> 0, correctAnswers |-> 0]

\* new QuizEngine().importState(state): the import into a new session, which
\* is the session from then on
importStateFresh(state) ==
    LET vocab1 == IF state.vocabulary.present
                  THEN state.vocabulary.items ELSE << >>
        stats1 == IF state.stats.present
                  THEN state.stats.value ELSE ConstructorStats
    IN  /\ vocabulary' = vocab1
        /\ currentWord' = NullRef
        /\ correctAnswer' = ""
        /\ stats' = updateStats(stats1, vocab1)
        /\ ret' = Ret("importStateFresh", FALSE, FALSE, NoQuestion, NoResult,
                      FALSE)

Next ==
    \/ (\E arg \in InitializeArgs : initialize(arg)) /\ UNCHANGED otherVars
    \/ getNextWord /\ UNCHANGED otherVars
    \/ /\ \E selectedAnswer \in {correctAnswer, WrongAnswer} :
            boundedSubmitAnswer(selectedAnswer)
       /\ UNCHANGED otherVars
    \/ resetProgress /\ UNCHANGED otherVars
    \/ (\E french \in Frenches : markWordAsMastered(french))
            /\ UNCHANGED otherVars
    \/ (\E state \in ImportStates : importState(state)) /\ UNCHANGED otherVars

Spec == Init /\ [][Next]_vars

\* three words, all targets distinct
ListThree ==
    << Item("chat", "cat", "false"), Item("chien", "dog", "false"),
       Item("maison", "house", "true") >>

\* the arguments of initialize in a quiz without import
PlayArgs ==
    {Arg(TRUE, ListDistinct4), Arg(TRUE, ListThree), Arg(TRUE, ListShort2),
     Arg(TRUE, << >>)}

\* the quiz as initialize, getNextWord, submitAnswer and resetProgress drive it
NextPlay ==
    \/ (\E arg \in PlayArgs : initialize(arg)) /\ UNCHANGED otherVars
    \/ getNextWord /\ UNCHANGED otherVars
    \/ /\ \E selectedAnswer \in {correctAnswer, WrongAnswer} :
            boundedSubmitAnswer(selectedAnswer)
       /\ UNCHANGED otherVars
    \/ resetProgress /\ UNCHANGED otherVars

SpecPlay == Init /\ [][NextPlay]_vars

(***************************************************************************)
(* The questions of lists with repeated targets                            *)
(***************************************************************************)
OptionArgs ==
    {Arg(TRUE, ListDup5), Arg(TRUE, ListDistinct4), Arg(TRUE, ListShort2)}

\* getNextWord on every list and every combination of mastered flags
NextOptions ==
    \/ (\E arg \in OptionArgs : initialize(arg)) /\ UNCHANGED otherVars
    \/ getNextWord /\ UNCHANGED otherVars
    \/ resetProgress /\ UNCHANGED otherVars
    \/ (\E french \in Frenches : markWordAsMastered(french))
            /\ UNCHANGED otherVars

SpecOptions == Init /\ [][NextOptions]_vars

(***************************************************************************)
(* A quiz in which every question is answered correctly                    *)
(***************************************************************************)
RunArgs ==
    {Arg(TRUE, ListDistinct4), Arg(TRUE, ListThree), Arg(TRUE, ListShort2)}

\* initialize once, then getNextWord and submitAnswer of the correct answer
\* in turns until getNextWord returns null
NextRun ==
    \/ /\ ret.op = "constructor"
       /\ \E arg \in RunArgs : initialize(arg)
       /\ UNCHANGED otherVars
    \/ /\ ret.op \in {"initialize", "submitAnswer"}
       /\ getNextWord
       /\ UNCHANGED otherVars
    \/ /\ ret.op = "getNextWord" /\ ~ret.isNull
       /\ submitAnswer(correctAnswer)
       /\ UNCHANGED otherVars

\* the next call is made eventually: the presentation layer fetches the next
\* question after every answer and every presented question is answered
SpecRun == Init /\ [][NextRun]_vars /\ WF_vars(NextRun)

(***************************************************************************)
(* Sessions whose state is exported and imported                           *)
(***************************************************************************)
TransferArgs == {Arg(TRUE, ListThree), Arg(TRUE, ListShort2)}

NextTransfer ==
    \/ (\E arg \in TransferArgs : initialize(arg)) /\ UNCHANGED otherVars
    \/ getNextWord /\ UNCHANGED otherVars
    \/ /\ \E selectedAnswer \in {correctAnswer, WrongAnswer} :
            boundedSubmitAnswer(selectedAnswer)
       /\ UNCHANGED otherVars
    \/ resetProgress /\ UNCHANGED otherVars
    \/ (\E state \in ImportStates : importState(state)) /\ UNCHANGED otherVars
    \/ importStateFresh(exportState) /\ UNCHANGED otherVars

SpecTransfer == Init /\ [][NextTransfer]_vars

(***************************************************************************)
(* The flip mode calls of the presentation layer                           *)
(***************************************************************************)
\* quizEngine.toggleFlipMode(): the class defines no member of that name, the
\* value of the property is undefined and the call throws a TypeError before
\* any field is read or written
toggleFlipMode ==
    /\ ret' = Ret("toggleFlipMode", TRUE, FALSE, NoQuestion, NoResult, FALSE)
    /\ UNCHANGED <<vocabulary, currentWord, correctAnswer, stats>>

\* quizEngine.getFlipMode(): no such member either, the call throws a
\* TypeError
getFlipMode ==
    /\ ret' = Ret("getFlipMode", TRUE, FALSE, NoQuestion, NoResult, FALSE)
    /\ UNCHANGED <<vocabulary, currentWord, correctAnswer, stats>>

FlipArgs == {Arg(TRUE, ListThree), Arg(TRUE, ListShort2)}

\* a quiz in which the flip mode button is used
NextFlip ==
    \/ (\E arg \in FlipArgs : initialize(arg)) /\ UNCHANGED otherVars
    \/ getNextWord /\ UNCHANGED otherVars
    \/ /\ \E selectedAnswer \in {correctAnswer, WrongAnswer} :
            boundedSubmitAnswer(selectedAnswer)
       /\ UNCHANGED otherVars
    \/ toggleFlipMode /\ UNCHANGED otherVars
    \/ getFlipMode /\ UNCHANGED otherVars

SpecFlip == Init /\ [][NextFlip]_vars

(***************************************************************************)
(* The page: UIManager and VocabularyApp of src/scripts/app.js with the     *)
(* StorageManager of src/scripts/storage.js around the session.  A handler *)
(* is one step.  showQuizScreen ends every handler that calls it: after    *)
(* switchScreen('quiz') and updateProgress() it calls                      *)
(* quizEngine.getFlipMode(), which throws a TypeError.  While no page is   *)
(* loaded the session variables keep the values they had at the unload.    *)
(* localStorage.setItem is taken not to fail.                              *)
(***************************************************************************)
\* x || 0 for a number field
OrZero(x) == IF x \in {Undefined, NaN} THEN 0 ELSE x

\* a save that writes mastered: false for every item
saveVocabularyUnmastered(items) ==
    Present([i \in 1..Len(items) |->
                [french |-> items[i].french, english |-> items[i].english,
                 mastered |-> FALSE]])

\* saveVocabulary(vocabulary): the vocabData record it writes
saveVocabulary(items) ==
    Present([i \in 1..Len(items) |->
                [french |-> items[i].french, english |-> items[i].english,
                 mastered |-> items[i].mastered]])

\* saveProgress(progress): the progress record it writes (lastUpdated is not
\* modelled)
saveProgress(progress) ==
    Present([masteredCount |-> OrZero(progress.masteredCount),
             totalCount |-> OrZero(progress.totalCount),
             percentage |-> OrZero(progress.percentage)])

\* clearAll(): the three records are removed
clearAll == EmptyStorage(FALSE)

\* a parsed file of four rows
ParsedFour ==
    << Item("chat", "cat", "false"), Item("chien", "dog", "false"),
       Item("maison", "house", "false"), Item("voiture", "car", "false") >>

\* a parsed file of four rows, two of them duplicates that were removed
ParsedTwo == << Item("chat", "cat", "false"), Item("chien", "dog", "false") >>

\* the vocabularies parseFile hands to handleFileUpload
UploadLists == {ParsedFour, ParsedTwo}

\* the session as the constructor leaves it
newQuizEngine ==
    /\ vocabulary' = << >>
    /\ currentWord' = NullRef
    /\ correctAnswer' = ""
    /\ stats' = ConstructorStats
    /\ ret' = Ret("constructor", FALSE, FALSE, NoQuestion, NoResult, FALSE)

\* the page is loaded: the scripts make a new session and a new UIManager,
\* VocabularyApp.continueInitialization calls ui.checkExistingData() and,
\* when that returns false, ui.showUploadScreen()
checkExistingData ==
    LET vocab == localStorage.vocabData
        progress == localStorage.progress
    IN  /\ currentScreen = "unloaded"
        /\ IF vocab.present /\ progress.present
           THEN \* initialize throws for an empty list; otherwise
                \* importState replaces what initialize has set, then
                \* showQuizScreen throws; the catch clause clears the storage
                /\ IF isInvalidVocabulary(Arg(TRUE, vocab.value))
                   THEN newQuizEngine
                   ELSE importStateFresh(State(TRUE, FALSE, vocab.value,
                                               TRUE, ProgressAsStats))
                /\ localStorage' = clearAll
           ELSE /\ newQuizEngine
                /\ UNCHANGED localStorage
        /\ currentScreen' = "upload"
        /\ answerButtonsDisabled' = FALSE
        /\ autoAdvanceTimer' = FALSE
        /\ isUploading' = FALSE
        /\ UNCHANGED <<pendingTimeouts, uploadsInProgress>>
        /\ handler' = Handler("checkExistingData", FALSE)

\* initializeQuizWithVocabulary(vocabulary) up to the TypeError of
\* showQuizScreen, which the catch clause of its caller takes
initializeQuizWithVocabulary(list) ==
    /\ initialize(Arg(TRUE, list))
    /\ localStorage' =
          [localStorage EXCEPT
              !.vocabData = saveVocabulary(Stored(list)),
              !.progress = saveProgress([masteredCount |-> 0,
                                         totalCount |-> Len(list),
                                         percentage |-> 0])]
    /\ currentScreen' = "quiz"
    /\ UNCHANGED <<answerButtonsDisabled, autoAdvanceTimer, pendingTimeouts>>

\* the change listener of the file input and the drop listener of the upload
\* area: handleFileUpload is called unless an upload is in progress, and
\* waits for parseFile
fileInputChange ==
    /\ currentScreen = "upload"
    /\ IF isUploading
       THEN UNCHANGED <<isUploading, uploadsInProgress>>
       ELSE /\ isUploading' = TRUE
            /\ uploadsInProgress' = uploadsInProgress + 1
    /\ UNCHANGED <<vocabulary, currentWord, correctAnswer, stats, ret,
                   localStorage, currentScreen, answerButtonsDisabled,
                   autoAdvanceTimer, pendingTimeouts>>
    /\ handler' = Handler("fileInputChange", FALSE)

\* what parseFile hands to handleFileUpload: a vocabulary, or a failure (a
\* rejected promise ends in the same showError)
UploadResults ==
    {[success |-> TRUE, vocabulary |-> list] : list \in UploadLists}
        \cup {[success |-> FALSE, vocabulary |-> << >>]}

\* handleFileUpload(file) from the moment parseFile has settled
handleFileUpload(result) ==
    /\ uploadsInProgress > 0
    /\ IF result.success
       THEN initializeQuizWithVocabulary(result.vocabulary)
       ELSE UNCHANGED <<vocabulary, currentWord, correctAnswer, stats, ret,
                        localStorage, currentScreen, answerButtonsDisabled,
                        autoAdvanceTimer, pendingTimeouts>>
    /\ isUploading' = FALSE
    /\ uploadsInProgress' = uploadsInProgress - 1
    /\ handler' = Handler("handleFileUpload", FALSE)

\* getSampleVocabulary(), cut to its entries 7 to 10; they have no mastered
\* field
SampleVocabulary ==
    << Item("chat", "cat", "missing"), Item("chien", "dog", "missing"),
       Item("maison", "house", "missing"),
       Item("voiture", "car", "missing") >>

\* handleSampleVocabulary(): the use-sample button of the upload screen
handleSampleVocabulary ==
    /\ currentScreen = "upload"
    /\ initializeQuizWithVocabulary(SampleVocabulary)
    /\ UNCHANGED <<isUploading, uploadsInProgress>>
    /\ handler' = Handler("handleSampleVocabulary", FALSE)

\* storage.saveVocabulary(quizEngine.getVocabulary());
\* storage.saveProgress(quizEngine.getProgress()) after the session's call
\* of the same handler
saveSession ==
    [localStorage EXCEPT !.vocabData = saveVocabulary(getVocabulary'),
                         !.progress = saveProgress(getProgress')]

\* a cancelAutoAdvance that leaves the timeout pending
cancelAutoAdvanceKeep(fired) ==
    [timer |-> autoAdvanceTimer,
     pending |-> IF fired THEN pendingTimeouts - 1 ELSE pendingTimeouts]

\* cancelAutoAdvance(): clearTimeout takes the timeout ui.autoAdvanceTimer
\* names off the browser's list and the field becomes null.  fired: the call
\* comes from the callback of that timeout, which the browser has taken off
\* already
cancelAutoAdvance(fired) ==
    [timer |-> FALSE,
     pending |-> IF fired \/ autoAdvanceTimer
                 THEN pendingTimeouts - 1 ELSE pendingTimeouts]

\* startAutoAdvance(isCorrect): cancelAutoAdvance(), then setTimeout
startAutoAdvance ==
    [timer |-> TRUE, pending |-> cancelAutoAdvance(FALSE).pending + 1]

\* handleAnswerSelection(selectedAnswer): a click on an answer button that
\* is not disabled or one of the keys 1 to 4 on the quiz screen
handleAnswerSelection(selectedAnswer) ==
    /\ currentScreen = "quiz"
    /\ ~answerButtonsDisabled
    /\ boundedSubmitAnswer(selectedAnswer)
    /\ IF ret'.threw
       THEN UNCHANGED <<localStorage, answerButtonsDisabled, autoAdvanceTimer,
                        pendingTimeouts>>
       ELSE /\ answerButtonsDisabled' = TRUE
            /\ localStorage' = saveSession
            /\ autoAdvanceTimer' = startAutoAdvance.timer
            /\ pendingTimeouts' = startAutoAdvance.pending
    /\ UNCHANGED <<currentScreen, isUploading, uploadsInProgress>>
    /\ handler' = Handler("handleAnswerSelection", FALSE)

\* handleNextWord(): the Next button, the keys Enter and Space on the quiz
\* screen, and (fired) the callback of the auto-advance timer
handleNextWord(fired) ==
    /\ autoAdvanceTimer' = cancelAutoAdvance(fired).timer
    /\ pendingTimeouts' = cancelAutoAdvance(fired).pending
    /\ UNCHANGED <<isUploading, uploadsInProgress>>
    /\ IF isComplete
       THEN /\ currentScreen' = "completion"
            /\ UNCHANGED <<vocabulary, currentWord, correctAnswer, stats, ret,
                           answerButtonsDisabled>>
       ELSE /\ getNextWord
            /\ IF ret'.isNull
               THEN /\ currentScreen' = "completion"
                    /\ UNCHANGED answerButtonsDisabled
               ELSE /\ answerButtonsDisabled' = FALSE
                    /\ UNCHANGED currentScreen
    /\ UNCHANGED localStorage
    /\ handler' = Handler("handleNextWord", FALSE)

\* handleRestart(): the restart button of the completion screen; the
\* TypeError of showQuizScreen ends it before loadNextWord
handleRestart ==
    /\ currentScreen = "completion"
    /\ resetProgress
    /\ localStorage' = saveSession
    /\ currentScreen' = "quiz"
    /\ UNCHANGED <<answerButtonsDisabled, autoAdvanceTimer, pendingTimeouts,
                   isUploading, uploadsInProgress>>
    /\ handler' = Handler("handleRestart", TRUE)

\* showUploadScreen(): the new-vocabulary button of the completion screen
showUploadScreen ==
    /\ currentScreen = "completion"
    /\ currentScreen' = "upload"
    /\ UNCHANGED <<vocabulary, currentWord, correctAnswer, stats, ret,
                   localStorage, answerButtonsDisabled, autoAdvanceTimer,
                   pendingTimeouts, isUploading, uploadsInProgress>>
    /\ handler' = Handler("showUploadScreen", FALSE)

\* handleConfirmReset(): the confirm button of the reset dialog
handleConfirmReset ==
    /\ currentScreen # "unloaded"
    /\ localStorage' = clearAll
    /\ resetProgress
    /\ currentScreen' = "upload"
    /\ UNCHANGED <<answerButtonsDisabled, autoAdvanceTimer, pendingTimeouts,
                   isUploading, uploadsInProgress>>
    /\ handler' = Handler("handleConfirmReset", FALSE)

\* VocabularyApp.resetApp(), which window.resetApp calls
resetApp ==
    /\ currentScreen # "unloaded"
    /\ localStorage' = clearAll
    /\ resetProgress
    /\ currentScreen' = "upload"
    /\ UNCHANGED <<answerButtonsDisabled, autoAdvanceTimer, pendingTimeouts,
                   isUploading, uploadsInProgress>>
    /\ handler' = Handler("resetApp", FALSE)

\* the page is left: beforeunload calls VocabularyApp.saveCurrentState()
saveCurrentState ==
    /\ currentScreen # "unloaded"
    /\ localStorage' =
          IF Len(vocabulary) > 0
          THEN [localStorage EXCEPT
                   !.vocabData = saveVocabulary(getVocabulary),
                   !.progress = saveProgress(getProgress)]
          ELSE localStorage
    /\ currentScreen' = "unloaded"
    /\ autoAdvanceTimer' = FALSE
    /\ pendingTimeouts' = 0
    /\ isUploading' = FALSE
    /\ uploadsInProgress' = 0
    /\ UNCHANGED <<vocabulary, currentWord, correctAnswer, stats, ret,
                   answerButtonsDisabled>>
    /\ handler' = Handler("saveCurrentState", FALSE)

\* no page is loaded yet; an earlier visit may have left a settings record
InitApp ==
    /\ vocabulary = << >>
    /\ currentWord = NullRef
    /\ correctAnswer = ""
    /\ stats = ConstructorStats
    /\ ret = Ret("constructor", FALSE, FALSE, NoQuestion, NoResult, FALSE)
    /\ callerList = << >>
    /\ sharesCallerList = FALSE
    /\ localStorage \in {EmptyStorage(FALSE), EmptyStorage(TRUE)}
    /\ currentScreen = "unloaded"
    /\ answerButtonsDisabled = FALSE
    /\ autoAdvanceTimer = FALSE
    /\ pendingTimeouts = 0
    /\ isUploading = FALSE
    /\ uploadsInProgress = 0
    /\ handler = Handler("", FALSE)
    /\ callArg = NoCall
    /\ callResult = NoCall

NextApp ==
    \/ checkExistingData /\ UNCHANGED besidePage
    \/ fileInputChange /\ UNCHANGED besidePage
    \/ /\ \E result \in UploadResults : handleFileUpload(result)
       /\ UNCHANGED besidePage
    \/ handleSampleVocabulary /\ UNCHANGED besidePage
    \/ /\ \E selectedAnswer \in {correctAnswer, WrongAnswer} :
            handleAnswerSelection(selectedAnswer)
       /\ UNCHANGED besidePage
    \/ currentScreen = "quiz" /\ handleNextWord(FALSE) /\ UNCHANGED besidePage
    \/ pendingTimeouts > 0 /\ handleNextWord(TRUE) /\ UNCHANGED besidePage
    \/ handleRestart /\ UNCHANGED besidePage
    \/ showUploadScreen /\ UNCHANGED besidePage
    \/ handleConfirmReset /\ UNCHANGED besidePage
    \/ resetApp /\ UNCHANGED besidePage
    \/ saveCurrentState /\ UNCHANGED besidePage

SpecApp == InitApp /\ [][NextApp]_vars

(***************************************************************************)
(* A caller that keeps the list it passed to initialize                    *)
(***************************************************************************)
\* this.vocabulary = vocabulary: the session keeps the caller's array
sharesAfterInitializeSame == TRUE

\* vocabulary.map(item => ({ ...item, ... })): a new array of new objects
sharesAfterInitialize == FALSE

CallerArgs == {Arg(TRUE, ListThree), Arg(TRUE, ListShort2)}

\* the mastered field of a caller's item for a flag of the session
FlagText(b) == IF b THEN "true" ELSE "false"

\* the caller's list as the session's writes leave it
CallerView ==
    IF sharesCallerList
    THEN [i \in 1..Len(vocabulary') |->
             [french |-> vocabulary'[i].french,
              english |-> vocabulary'[i].english,
              mastered |-> FlagText(vocabulary'[i].mastered)]]
    ELSE callerList

\* the caller calls initialize with a list and keeps the list
callerInitialize(arg) ==
    /\ initialize(arg)
    /\ callerList' = arg.items
    /\ sharesCallerList' = sharesAfterInitialize

\* the caller sets the mastered field of item i of its list
callerSetMastered(i, m) ==
    /\ i \in 1..Len(callerList)
    /\ callerList' = [callerList EXCEPT ![i].mastered = m]
    /\ vocabulary' = IF sharesCallerList
                     THEN [vocabulary EXCEPT ![i].mastered = (m = "true")]
                     ELSE vocabulary
    /\ UNCHANGED <<currentWord, correctAnswer, stats, ret, sharesCallerList>>

\* the caller removes the last item of its list
callerPop ==
    /\ Len(callerList) > 0
    /\ callerList' = SubSeq(callerList, 1, Len(callerList) - 1)
    /\ vocabulary' = IF sharesCallerList
                     THEN SubSeq(vocabulary, 1, Len(vocabulary) - 1)
                     ELSE vocabulary
    /\ currentWord' = IF sharesCallerList /\ currentWord.idx = Len(vocabulary)
                      THEN Detach(currentWord) ELSE currentWord
    /\ UNCHANGED <<correctAnswer, stats, ret, sharesCallerList>>

NextCaller ==
    \/ (\E arg \in CallerArgs : callerInitialize(arg)) /\ UNCHANGED besideCaller
    \/ /\ \E i \in 1..3, m \in {"true", "false"} : callerSetMastered(i, m)
       /\ UNCHANGED besideCaller
    \/ callerPop /\ UNCHANGED besideCaller
    \/ /\ getNextWord
       /\ callerList' = CallerView
       /\ UNCHANGED <<sharesCallerList, besideCaller>>
    \/ /\ \E selectedAnswer \in {correctAnswer, WrongAnswer} :
            boundedSubmitAnswer(selectedAnswer)
       /\ callerList' = CallerView
       /\ UNCHANGED <<sharesCallerList, besideCaller>>
    \/ /\ resetProgress
       /\ callerList' = CallerView
       /\ UNCHANGED <<sharesCallerList, besideCaller>>

SpecCaller == Init /\ [][NextCaller]_vars

(***************************************************************************)
(* CSVParser.parseCSV of src/scripts/app.js.  A file is its header row,    *)
(* valid or not, and its data rows as parseCSVRow returns them.            *)
(***************************************************************************)
\* the most data rows of a file
MaxRows == 5

\* this.minWords
minWords == 4

\* the data rows of the files
CsvRows ==
    { [french |-> "chat", english |-> "cat"],
      [french |-> " Chat", english |-> "cat"],
      [french |-> "chien", english |-> "dog"],
      [french |-> "CHIEN", english |-> "dog"],
      [french |-> "maison", english |-> "house"],
      [french |-> "voiture", english |-> "car"],
      [french |-> "", english |-> "cat"] }

RECURSIVE SeqsUpTo(_, _)
\* the sequences of at most n elements of S
SeqsUpTo(S, n) ==
    IF n = 0 THEN { << >> }
    ELSE LET shorter == SeqsUpTo(S, n - 1)
         IN  shorter \cup
                 { Append(q, x) : q \in { r \in shorter : Len(r) = n - 1 },
                                  x \in S }

CsvFiles ==
    { [called |-> TRUE, headerValid |-> h, rows |-> rows] :
          h \in BOOLEAN, rows \in SeqsUpTo(CsvRows, MaxRows) }

\* String.prototype.trim() on the texts of the rows
trim(text) ==
    CASE text = " Chat" -> "Chat"
      [] text = " chat" -> "chat"
      [] OTHER -> text

\* String.prototype.toLowerCase() on the texts of the rows
toLowerCase(text) ==
    CASE text = "Chat" -> "chat"
      [] text = " Chat" -> " chat"
      [] text = "CHIEN" -> "chien"
      [] OTHER -> text

\* validateDataRow(row, rowNumber).valid
validateDataRow(row) ==
    /\ row.french # "" /\ row.english # ""
    /\ trim(row.french) # "" /\ trim(row.english) # ""

\* the key removeDuplicates compares
DuplicateKey(item) == trim(toLowerCase(item.french))

RECURSIVE RemoveFrom(_, _)
\* the items of list whose key is not in seen and not the key of an earlier
\* item
RemoveFrom(list, seen) ==
    IF list = << >> THEN << >>
    ELSE IF DuplicateKey(Head(list)) \in seen
         THEN RemoveFrom(Tail(list), seen)
         ELSE << Head(list) >>
                  \o RemoveFrom(Tail(list),
                                seen \cup {DuplicateKey(Head(list))})

\* removeDuplicates(vocabulary)
removeDuplicates(list) == RemoveFrom(list, {})

RECURSIVE ValidRows(_)
\* the loop over the data rows: the vocabulary it has pushed
ValidRows(rows) ==
    IF rows = << >> THEN << >>
    ELSE IF validateDataRow(Head(rows))
         THEN << Item(trim(Head(rows).french), trim(Head(rows).english),
                      "false") >> \o ValidRows(Tail(rows))
         ELSE ValidRows(Tail(rows))

ParseFailure ==
    [called |-> TRUE, success |-> FALSE, vocabulary |-> << >>,
     duplicatesRemoved |-> 0]

\* parseCSV(csvContent)
parseCSV(file) ==
    LET list == ValidRows(file.rows)
        uniqueVocabulary == removeDuplicates(list)
    IN  IF Len(file.rows) = 0 \/ ~file.headerValid THEN ParseFailure
        ELSE IF Len(list) < minWords THEN ParseFailure
        ELSE [called |-> TRUE, success |-> TRUE,
              vocabulary |-> uniqueVocabulary,
              duplicatesRemoved |-> Len(list) - Len(uniqueVocabulary)]

\* a file has been chosen and not yet parsed
InitParse ==
    /\ vocabulary = << >>
    /\ currentWord = NullRef
    /\ correctAnswer = ""
    /\ stats = ConstructorStats
    /\ ret = Ret("constructor", FALSE, FALSE, NoQuestion, NoResult, FALSE)
    /\ callerList = << >>
    /\ sharesCallerList = FALSE
    /\ localStorage = EmptyStorage(FALSE)
    /\ currentScreen = "unloaded"
    /\ answerButtonsDisabled = FALSE
    /\ autoAdvanceTimer = FALSE
    /\ pendingTimeouts = 0
    /\ isUploading = FALSE
    /\ uploadsInProgress = 0
    /\ handler = Handler("", FALSE)
    /\ callArg \in CsvFiles
    /\ callResult = NoCall

NextParse ==
    /\ ~callResult.called
    /\ callResult' = parseCSV(callArg)
    /\ UNCHANGED <<vocabulary, currentWord, correctAnswer, stats, ret,
                   callerVars, appVars, callArg>>

SpecParse == InitParse /\ [][NextParse]_vars

(***************************************************************************)
(* shuffleArray called on an array the caller keeps                        *)
(***************************************************************************)
\* the longest array that is shuffled
MaxShuffle == 4

\* the elements of the shuffled arrays
ShuffleElements == {"cat", "dog", "house"}

ShuffleArrays ==
    { [called |-> TRUE, array |-> array] :
          array \in SeqsUpTo(ShuffleElements, MaxShuffle) }

\* const shuffled = [...array]: the swaps are made in a new array, not in
\* the caller's
shuffledIsArray == FALSE

\* an array has been chosen and not yet shuffled
InitShuffle ==
    /\ vocabulary = << >>
    /\ currentWord = NullRef
    /\ correctAnswer = ""
    /\ stats = ConstructorStats
    /\ ret = Ret("constructor", FALSE, FALSE, NoQuestion, NoResult, FALSE)
    /\ callerList = << >>
    /\ sharesCallerList = FALSE
    /\ localStorage = EmptyStorage(FALSE)
    /\ currentScreen = "unloaded"
    /\ answerButtonsDisabled = FALSE
    /\ autoAdvanceTimer = FALSE
    /\ pendingTimeouts = 0
    /\ isUploading = FALSE
    /\ uploadsInProgress = 0
    /\ handler = Handler("", FALSE)
    /\ callArg \in ShuffleArrays
    /\ callResult = NoCall

\* the call shuffleArray(array): value is the returned array, array the
\* caller's array after the call
NextShuffle ==
    /\ ~callResult.called
    /\ \E shuffled \in shuffleArray(callArg.array) :
          callResult' = [called |-> TRUE, value |-> shuffled,
                         array |-> IF shuffledIsArray THEN shuffled
                                   ELSE callArg.array]
    /\ UNCHANGED <<vocabulary, currentWord, correctAnswer, stats, ret,
                   callerVars, appVars, callArg>>

SpecShuffle == InitShuffle /\ [][NextShuffle]_vars

(***************************************************************************)
(* Properties                                                              *)
(***************************************************************************)
\* the set of the elements of a sequence
Range(seq) == {seq[i] : i \in 1..Len(seq)}

\* the last call was a getNextWord that returned a question
ReturnedQuestion == ret.op = "getNextWord" /\ ~ret.threw /\ ~ret.isNull

\* the number of positions of a sequence that hold x
Occurrences(seq, x) == Cardinality({i \in 1..Len(seq) : seq[i] = x})

\* the distinct answers of the items whose answer differs from answer
Distractors(answer) ==
    {vocabulary[i].english : i \in 1..Len(vocabulary)} \ {answer}

\* C1: after every call, stats.masteredWords is the number of items of the
\* vocabulary whose mastered flag is true; importState recomputes it and
\* does not keep the imported value.
C1_MasteredWordsIsCount ==
    stats.masteredWords = Cardinality({i \in 1..Len(vocabulary) :
                                         vocabulary[i].mastered})

\* C1 witness: importState was called with a stats record whose masteredWords
\* (3) is not the count of the session's mastered items, and the record's
\* other fields were taken over.
C1_Witness ==
    /\ ret.op = "importState"
    /\ stats.totalWords = EditedStats.totalWords
    /\ Len(vocabulary) = 2
    /\ stats.masteredWords = 1

\* C2: in every reachable state totalWords (getProgress().totalCount) is a
\* defined integer equal to the length of the vocabulary and
\* 0 <= masteredWords <= totalWords.
C2_MasteredWithinTotal ==
    /\ getProgress.totalCount \notin {Undefined, NaN}
    /\ getProgress.totalCount = Len(vocabulary)
    /\ 0 <= stats.masteredWords
    /\ stats.masteredWords <= stats.totalWords

\* C3: for a list with at least 4 distinct targets, every returned question
\* has exactly 4 pairwise distinct options, exactly one of them the correct
\* answer; for a 4-item list with distinct targets the options are a
\* permutation of the 4 targets.
C3_FourDistinctOptions ==
    (ReturnedQuestion
        /\ Cardinality({vocabulary[i].english : i \in 1..Len(vocabulary)}) >= 4)
    => /\ Len(ret.question.options) = 4
       /\ Cardinality(Range(ret.question.options)) = 4
       /\ Occurrences(ret.question.options, ret.question.correctAnswer) = 1
       /\ (Len(vocabulary) = 4 =>
              Range(ret.question.options) =
                  {vocabulary[i].english : i \in 1..Len(vocabulary)})

\* C4: for every list of at least 4 items (sources distinct, targets
\* possibly repeated), every returned question has exactly 4 unique options.
C4_FourUniqueOptionsFromFourWords ==
    (ReturnedQuestion /\ Len(vocabulary) >= 4)
    => \E a, b, c, d \in Range(ret.question.options) :
          /\ Cardinality({a, b, c, d}) = 4
          /\ Range(ret.question.options) = {a, b, c, d}
          /\ Len(ret.question.options) = 4

\* C5: getNextWord returns no question when fewer than 3 distinct
\* distractors exist for the selected word, and never a question with fewer
\* than 4 options.
C5_NoShortOptions ==
    ReturnedQuestion
    => /\ Cardinality(Distractors(ret.question.correctAnswer)) >= 3
       /\ Len(ret.question.options) >= 4

\* C6: the item getNextWord selects is not mastered; when exactly one item
\* is unmastered, the question is about that item.
C6_SelectsUnmasteredOnly ==
    ReturnedQuestion
    => /\ currentWord.kind = "vocab"
       /\ ~vocabulary[currentWord.idx].mastered
       /\ ret.question.french = vocabulary[currentWord.idx].french
       /\ \A i \in 1..Len(vocabulary) :
             (\A k \in 1..Len(vocabulary) : ~vocabulary[k].mastered => k = i)
             => ret.question.french = vocabulary[i].french

\* C6 witness: a question was returned while exactly one item of a list of
\* at least 4 was unmastered.
C6_Witness ==
    /\ ReturnedQuestion
    /\ Len(vocabulary) >= 4
    /\ Cardinality({i \in 1..Len(vocabulary) : ~vocabulary[i].mastered}) = 1

\* C7: getNextWord throws nothing; it returns null exactly when no item is
\* unmastered, and otherwise a question whose prompt is the french and whose
\* correctAnswer is the english of one unmastered item.
C7_NullIffNoneUnmastered ==
    ret.op = "getNextWord"
    => /\ ~ret.threw
       /\ ret.isNull <=> (\A i \in 1..Len(vocabulary) : vocabulary[i].mastered)
       /\ ~ret.isNull =>
             \E i \in 1..Len(vocabulary) :
                /\ ~vocabulary[i].mastered
                /\ ret.question.french = vocabulary[i].french
                /\ ret.question.correctAnswer = vocabulary[i].english
                /\ correctAnswer = vocabulary[i].english

\* C7 witness: null was returned for a list all of whose items are mastered.
C7_Witness ==
    /\ ret.op = "getNextWord"
    /\ ret.isNull
    /\ Len(vocabulary) >= 4

\* C8: submitAnswer without a current question throws and changes no
\* counter and no mastered flag.
C8_SubmitWithoutQuestionThrows ==
    [][(ret'.op = "submitAnswer" /\ currentWord.kind = "null")
        => /\ ret'.threw
           /\ stats' = stats
           /\ vocabulary' = vocabulary
           /\ currentWord' = currentWord]_vars

\* C8 witness: submitAnswer threw on an initialized session.
C8_Witness ==
    /\ ret.op = "submitAnswer"
    /\ ret.threw
    /\ Len(vocabulary) >= 4

\* C9: after a successful submitAnswer, a second submitAnswer with no
\* getNextWord in between throws and changes none of totalAnswered,
\* correctAnswers, currentStreak.
C9_SecondSubmitThrows ==
    [][(ret.op = "submitAnswer" /\ ~ret.threw /\ ret'.op = "submitAnswer")
        => /\ ret'.threw
           /\ stats'.totalAnswered = stats.totalAnswered
           /\ stats'.correctAnswers = stats.correctAnswers
           /\ stats'.currentStreak = stats.currentStreak]_vars

\* C10: a successful submitAnswer of the correct answer sets the mastered
\* flag of the prompted item and raises totalAnswered, masteredWords,
\* correctAnswers and currentStreak by exactly 1 each.
C10_CorrectAnswerCountsOnce ==
    [][(ret'.op = "submitAnswer" /\ ~ret'.threw
            /\ ret'.result.selectedAnswer = correctAnswer)
        => /\ currentWord.kind = "vocab"
           /\ vocabulary'[currentWord.idx].mastered
           /\ stats'.totalAnswered = stats.totalAnswered + 1
           /\ stats'.masteredWords = stats.masteredWords + 1
           /\ stats'.correctAnswers = stats.correctAnswers + 1
           /\ stats'.currentStreak = stats.currentStreak + 1]_vars

\* C11: a submitAnswer of a text that differs from the correct answer sets
\* currentStreak to 0, raises totalAnswered by 1 and changes none of
\* correctAnswers, masteredWords and the mastered flags.
C11_WrongAnswerKeepsMastery ==
    [][(ret'.op = "submitAnswer" /\ ~ret'.threw
            /\ ret'.result.selectedAnswer # correctAnswer)
        => /\ stats'.currentStreak = 0
           /\ stats'.totalAnswered = stats.totalAnswered + 1
           /\ stats'.correctAnswers = stats.correctAnswers
           /\ stats'.masteredWords = stats.masteredWords
           /\ vocabulary' = vocabulary]_vars

C13_CompleteNeedsWords ==
    isComplete <=> (stats.masteredWords = stats.totalWords
                        /\ stats.totalWords > 0)

\* every item of the vocabulary is mastered
AllMastered == \A i \in 1..Len(vocabulary) : vocabulary[i].mastered

\* C14: after a valid initialize and any getNextWord/submitAnswer calls,
\* isComplete() is true exactly when every item is mastered, and exactly
\* then getNextWord returns null.
C14_CompleteIffAllMastered ==
    Len(vocabulary) > 0
    => /\ isComplete <=> AllMastered
       /\ ret.op = "getNextWord" => (ret.isNull <=> isComplete)

\* C14 witness: every item of a list was mastered by answers, isComplete()
\* is true and getNextWord returned null.
C14_Witness ==
    /\ Len(vocabulary) > 0
    /\ isComplete
    /\ stats.correctAnswers > 0
    /\ ret.op = "getNextWord"
    /\ ret.isNull

\* C15: a getNextWord or submitAnswer call never lowers masteredWords and
\* never turns a mastered flag from true to false.
C15_MasteryMonotone ==
    [][ret'.op \in {"getNextWord", "submitAnswer"}
        => /\ stats'.masteredWords >= stats.masteredWords
           /\ Len(vocabulary') = Len(vocabulary)
           /\ \A i \in 1..Len(vocabulary) :
                 vocabulary[i].mastered => vocabulary'[i].mastered]_vars

\* C15 witness: a wrong answer was submitted on a question whose word is
\* already mastered.
C15_Witness ==
    /\ ret.op = "submitAnswer"
    /\ ~ret.threw
    /\ ~ret.result.isCorrect
    /\ currentWord.kind = "vocab"
    /\ vocabulary[currentWord.idx].mastered

\* C16: initialize with an empty array or a non-array throws and changes
\* neither the vocabulary nor a counter nor the current question.
C16_InvalidInitializeKeepsState ==
    [][\A arg \in InitializeArgs :
          (ret'.op = "initialize" /\ (~arg.isArray \/ arg.items = << >>)
              /\ initialize(arg))
          => /\ ret'.threw
             /\ vocabulary' = vocabulary
             /\ stats' = stats
             /\ currentWord' = currentWord
             /\ correctAnswer' = correctAnswer]_vars

\* C16 witness: initialize threw on a session that holds a list and a
\* current question.
C16_Witness ==
    /\ ret.op = "initialize"
    /\ ret.threw
    /\ Len(vocabulary) >= 4
    /\ currentWord.kind = "vocab"

\* C18: after initialize with N items, totalCount is N and masteredCount is
\* the number of input items whose mastered field is true (a missing field
\* counts as false).
C18_InitializeCounts ==
    [][\A arg \in InitializeArgs :
          (ret'.op = "initialize" /\ arg.isArray /\ arg.items # << >>
              /\ initialize(arg))
          => /\ getProgress'.totalCount = Len(arg.items)
             /\ getProgress'.masteredCount =
                    Cardinality({i \in 1..Len(arg.items) :
                                    arg.items[i].mastered = "true"})]_vars

\* C18 witness: a list with an item without a mastered field was loaded and
\* no item counts as mastered.
C18_Witness ==
    /\ ret.op = "initialize"
    /\ ~ret.threw
    /\ getProgress.totalCount = 4
    /\ getProgress.masteredCount = 0

\* C19: in every returned question the correct answer occurs exactly once,
\* every other option is the target of another item of the full vocabulary,
\* and the distractors are drawn from all other items, mastered or not.
C19_DistractorsFromFullList ==
    ReturnedQuestion
    => /\ Occurrences(ret.question.options, ret.question.correctAnswer) = 1
       /\ \A k \in 1..Len(ret.question.options) :
             ret.question.options[k] # ret.question.correctAnswer
             => \E i \in 1..Len(vocabulary) :
                   /\ i # currentWord.idx
                   /\ vocabulary[i].english = ret.question.options[k]
       /\ LET others == {i \in 1..Len(vocabulary) :
                            vocabulary[i].english # ret.question.correctAnswer}
          IN  Len(ret.question.options) =
                  1 + (IF Cardinality(others) < 3 THEN Cardinality(others)
                       ELSE 3)

\* C19 witness: a returned question has an option that is the target of
\* mastered items only.
C19_Witness ==
    /\ ReturnedQuestion
    /\ \E k \in 1..Len(ret.question.options) :
          \A i \in 1..Len(vocabulary) :
             vocabulary[i].english = ret.question.options[k]
             => vocabulary[i].mastered

\* p is x / y * 100 rounded to the nearest integer, halves upwards
IsRounded(p, x, y) == 200 * x - y < 2 * y * p /\ 2 * y * p <= 200 * x + y

\* C20: getProgress reports masteredWords, totalWords, currentStreak, the
\* rounded percentage of mastered words and the rounded accuracy, 0 for a
\* zero denominator; percentage and accuracy are integers in 0..100.
C20_ProgressValues ==
    /\ getProgress.masteredCount = stats.masteredWords
    /\ getProgress.totalCount = stats.totalWords
    /\ getProgress.currentStreak = stats.currentStreak
    /\ IF stats.totalWords = 0 THEN getProgress.percentage = 0
       ELSE IsRounded(getProgress.percentage, stats.masteredWords,
                      stats.totalWords)
    /\ IF stats.totalAnswered = 0 THEN getProgress.accuracy = 0
       ELSE IsRounded(getProgress.accuracy, stats.correctAnswers,
                      stats.totalAnswered)
    /\ getProgress.percentage \in 0..100
    /\ getProgress.accuracy \in 0..100

\* C20 witness: two of three words are mastered, a ratio that is no integer
\* percentage.
C20_Witness ==
    /\ stats.totalWords = 3
    /\ stats.masteredWords = 2
    /\ getProgress.percentage = 67

\* C17: initialize stores copies: a change the caller makes to its list or
\* to the mastered field of one of its items changes no item and no counter
\* of the session, and a mastery update of the session (submitAnswer,
\* resetProgress) changes no item of the caller.
C17_InitializeCopies ==
    [][/\ ((\E i \in 1..3, m \in {"true", "false"} : callerSetMastered(i, m))
                \/ callerPop)
           => vocabulary' = vocabulary /\ stats' = stats
       /\ (ret'.op \in {"submitAnswer", "resetProgress"}
                /\ vocabulary' # vocabulary)
           => callerList' = callerList]_vars

\* C17 witness: the caller has marked an item of its list mastered and
\* removed another, the session has mastered a word by an answer, and the
\* two lists differ.
C17_Witness ==
    /\ Len(callerList) = 2
    /\ Len(vocabulary) = 3
    /\ callerList[1].mastered = "true"
    /\ ~vocabulary[1].mastered
    /\ vocabulary[2].mastered
    /\ callerList[2].mastered = "false"
    /\ ret.op = "submitAnswer"

\* C21: resetProgress sets the mastered flag of every item to false and
\* masteredWords, totalAnswered, correctAnswers and currentStreak to 0;
\* totalWords and the french and english fields and the order of the items
\* stay as they are.
C21_ResetClears ==
    [][ret'.op = "resetProgress"
        => /\ \A i \in 1..Len(vocabulary') : ~vocabulary'[i].mastered
           /\ stats'.masteredWords = 0
           /\ stats'.totalAnswered = 0
           /\ stats'.correctAnswers = 0
           /\ stats'.currentStreak = 0
           /\ stats'.totalWords = stats.totalWords
           /\ Len(vocabulary') = Len(vocabulary)
           /\ \A i \in 1..Len(vocabulary) :
                 /\ vocabulary'[i].french = vocabulary[i].french
                 /\ vocabulary'[i].english = vocabulary[i].english]_vars

\* C21 witness: resetProgress has cleared the flag of the word the two-word
\* list came with as mastered.
C21_Witness ==
    /\ ret.op = "resetProgress"
    /\ Len(vocabulary) = 2
    /\ ~vocabulary[1].mastered
    /\ stats.totalWords = 2

\* C22: resetProgress is idempotent: a resetProgress that follows a
\* resetProgress changes no item, no counter and not the current question.
C22_ResetIdempotent ==
    [][(ret.op = "resetProgress" /\ ret'.op = "resetProgress")
        => /\ vocabulary' = vocabulary
           /\ stats' = stats
           /\ currentWord' = currentWord
           /\ correctAnswer' = correctAnswer]_vars

\* C22 witness: resetProgress was called on a four-word list with a current
\* question after the counters were replaced by an import.
C22_Witness ==
    /\ ret.op = "resetProgress"
    /\ Len(vocabulary) = 4
    /\ currentWord.kind = "vocab"
    /\ stats.totalWords = Undefined

\* C23: the session has toggleFlipMode and getFlipMode: neither throws,
\* toggleFlipMode returns the new direction and changes no mastered flag and
\* no counter, and the question of the getNextWord that follows a toggle to
\* the flipped direction prompts with the english text and expects the
\* french one.
C23_ToggleFlipsDirectionOnly ==
    [][/\ ret'.op \in {"toggleFlipMode", "getFlipMode"}
           => /\ ~ret'.threw
              /\ vocabulary' = vocabulary
              /\ stats' = stats
       /\ (ret.op = "toggleFlipMode" /\ ret.flag
                /\ ret'.op = "getNextWord" /\ ~ret'.isNull)
           => /\ ret'.question.french = vocabulary[currentWord'.idx].english
              /\ ret'.question.correctAnswer =
                     vocabulary[currentWord'.idx].french]_vars

\* C24: importState(exportState()), into the same session or into a new
\* one, gives a session whose getProgress() equals the exporting session's
\* and whose items have the same texts and mastered flags in the same order.
C24_ExportImportRoundTrip ==
    [][(ret'.op \in {"importState", "importStateFresh"}
            /\ (importState(exportState) \/ importStateFresh(exportState)))
        => /\ getProgress' = getProgress
           /\ vocabulary' = vocabulary]_vars

\* C24 witness: a new session has imported the export of a session with
\* three words, two of them mastered, one by a correct answer after a wrong
\* one.
C24_Witness ==
    /\ ret.op = "importStateFresh"
    /\ Len(vocabulary) = 3
    /\ stats.masteredWords = 2
    /\ stats.correctAnswers = 1
    /\ stats.totalAnswered = 2

\* C25: a getNextWord call changes no counter and no item, also while a
\* question is current; when an unmastered item exists it returns a question
\* and that question is the current one from then on.
C25_GetNextWordFrame ==
    [][ret'.op = "getNextWord"
        => /\ stats' = stats
           /\ vocabulary' = vocabulary
           /\ availableWords(vocabulary) # {}
              => /\ ~ret'.isNull
                 /\ currentWord'.kind = "vocab"
                 /\ ret'.question.french = vocabulary[currentWord'.idx].french
                 /\ ret'.question.correctAnswer = correctAnswer'
                 /\ correctAnswer' = vocabulary[currentWord'.idx].english]_vars

\* C25 witness: a question was fetched on a four-word list while the streak
\* of correct answers was 1, and the streak is still 1.
C25_Witness ==
    /\ ReturnedQuestion
    /\ Len(vocabulary) = 4
    /\ stats.currentStreak = 1
    /\ stats.totalAnswered = 1

\* the number of items of an input list that do not come as mastered
UnmasteredAtStart(items) ==
    Cardinality({i \in 1..Len(items) : items[i].mastered # "true"})

\* C26: from an initialized list with K unmastered items, a run that takes
\* getNextWord and a correct submitAnswer in turns is complete after exactly K
\* answers and not before: isComplete() is then true and getNextWord returns
\* null; and every such run does get there.
C26_CompleteAfterKRounds ==
    /\ [](\A arg \in RunArgs :
            Len(vocabulary) = Len(arg.items)
            => /\ stats.totalAnswered <= UnmasteredAtStart(arg.items)
               /\ isComplete
                    <=> stats.totalAnswered = UnmasteredAtStart(arg.items)
               /\ ret.op = "getNextWord"
                    => (ret.isNull
                          <=> stats.totalAnswered = UnmasteredAtStart(arg.items)))
    /\ <>(Len(vocabulary) > 0 /\ isComplete
            /\ ret.op = "getNextWord" /\ ret.isNull)

\* C26 witness: the four words of the four-word list were mastered in four
\* rounds and getNextWord has returned null.
C26_Witness ==
    /\ Len(vocabulary) = 4
    /\ stats.totalAnswered = 4
    /\ stats.masteredWords = 4
    /\ isComplete
    /\ ret.op = "getNextWord"
    /\ ret.isNull

\* C27: resetProgress on a session all of whose items are mastered leaves it
\* not complete with every item selectable, and the getNextWord that follows
\* returns a question.
C27_ResetReopensComplete ==
    [][/\ (ret'.op = "resetProgress" /\ Len(vocabulary) > 0 /\ AllMastered)
           => /\ ~isComplete'
              /\ availableWords(vocabulary') = 1..Len(vocabulary')
       /\ (ret.op = "resetProgress" /\ Len(vocabulary) > 0
                /\ ret'.op = "getNextWord")
           => ~ret'.isNull /\ ~ret'.threw]_vars

\* the stored records hold what the session holds: the items with their
\* flags, and masteredCount, totalCount and percentage of getProgress()
StoredIsSession ==
    /\ localStorage.vocabData = Present(vocabulary)
    /\ localStorage.progress.present
    /\ localStorage.progress.value.masteredCount = getProgress.masteredCount
    /\ localStorage.progress.value.totalCount = getProgress.totalCount
    /\ localStorage.progress.value.percentage = getProgress.percentage

C29_ReloadResumes ==
    [][(handler'.name = "checkExistingData" /\ currentScreen = "unloaded"
            /\ localStorage.vocabData.present /\ localStorage.progress.present)
        => /\ currentScreen' = "quiz"
           /\ localStorage'.vocabData = localStorage.vocabData
           /\ localStorage'.progress = localStorage.progress
           /\ getProgress'.masteredCount = getProgress.masteredCount
           /\ getProgress'.totalCount = getProgress.totalCount
           /\ isComplete' <=> isComplete]_vars

\* the handler that ran last is one of the two resets
AfterReset == handler.name \in {"handleConfirmReset", "resetApp"}

\* C30: after handleConfirmReset or resetApp localStorage has no vocabData,
\* no progress and no settings record and the upload screen is shown; and
\* what follows the reset, the unload of the page included, stores no
\* vocabData and no progress record unless it loads a new vocabulary.
C30_ResetStaysCleared ==
    [][/\ AfterReset'
           => /\ localStorage' = EmptyStorage(FALSE)
              /\ currentScreen' = "upload"
       /\ (AfterReset /\ handler'.name \notin {"handleFileUpload",
                                                "handleSampleVocabulary"})
           => /\ ~localStorage'.vocabData.present
              /\ ~localStorage'.progress.present]_vars

\* the source terms of the valid rows of a file, in lower case
DistinctWords(file) ==
    { trim(toLowerCase(file.rows[i].french)) :
          i \in { j \in 1..Len(file.rows) : validateDataRow(file.rows[j]) } }

\* C31: a successful result of parseCSV has at least minWords entries, no
\* two of them with the same source term in lower case, and a file with
\* fewer than minWords distinct valid words is rejected.
C31_ParsedHasMinWords ==
    callResult.called
        => /\ callResult.success
                => /\ Len(callResult.vocabulary) >= minWords
                   /\ \A i, j \in 1..Len(callResult.vocabulary) :
                         DuplicateKey(callResult.vocabulary[i])
                             = DuplicateKey(callResult.vocabulary[j])
                         => i = j
           /\ Cardinality(DistinctWords(callArg)) < minWords
                => ~callResult.success

\* C32: every handleAnswerSelection finds an active question (submitAnswer
\* does not throw) and leaves the answer buttons disabled, and on a loaded
\* page disabled answer buttons become enabled only in a step in which
\* loadNextWord has got a new question from getNextWord.
C32_AnswerOncePerQuestion ==
    [][/\ handler'.name = "handleAnswerSelection"
           => ~ret'.threw /\ answerButtonsDisabled'
       /\ (answerButtonsDisabled /\ ~answerButtonsDisabled'
              /\ handler'.name # "checkExistingData")
           => /\ handler'.name = "handleNextWord"
              /\ ret'.op = "getNextWord" /\ ~ret'.isNull
              /\ hasCurrentWord(currentWord')]_vars

\* C33: at most one auto-advance timeout is pending and ui.autoAdvanceTimer
\* names it; it is pending after an accepted answer and only while the
\* answer buttons are still disabled, so never over a freshly loaded
\* question; after handleNextWord, by the timer or by Next, none is pending.
C33_OneTimerOneAdvance ==
    /\ pendingTimeouts \in {0, 1}
    /\ autoAdvanceTimer <=> pendingTimeouts = 1
    /\ pendingTimeouts = 1 => answerButtonsDisabled
    /\ (handler.name = "handleAnswerSelection" /\ ~ret.threw)
          => pendingTimeouts = 1
    /\ handler.name = "handleNextWord" => pendingTimeouts = 0

\* C33 witness: after an accepted answer handleNextWord has loaded the next
\* question and no timeout is left.
C33_Witness ==
    /\ handler.name = "handleNextWord"
    /\ stats.totalAnswered > 0
    /\ ret.op = "getNextWord" /\ ~ret.isNull
    /\ ~answerButtonsDisabled
    /\ pendingTimeouts = 0 /\ ~autoAdvanceTimer

\* C34: a handleNextWord, by the timer or by Next, that finds a loaded list
\* with every item mastered switches to the completion screen and loads no
\* question; and whenever the completion screen is shown there is a list
\* and every item of it is mastered.
C34_CompletionWhenAllMastered ==
    [][/\ (handler'.name = "handleNextWord" /\ Len(vocabulary) > 0
              /\ AllMastered)
           => /\ currentScreen' = "completion"
              /\ currentWord' = currentWord
              /\ ret'.op = "getNextWord" => ret'.isNull
       /\ currentScreen' = "completion"
           => Len(vocabulary') > 0 /\ AllMastered']_vars

\* C34 witness: the last unmastered word was answered correctly and the
\* advance after it has shown the completion screen.
C34_Witness ==
    /\ handler.name = "handleNextWord"
    /\ currentScreen = "completion"
    /\ ret.op = "submitAnswer" /\ ret.result.isCorrect
    /\ Len(vocabulary) > 0 /\ AllMastered

\* C35: at most one handleFileUpload is in progress and isUploading is true
\* exactly while one is; a file selection or drop while isUploading starts
\* none; isUploading is false when handleFileUpload has finished; and no
\* load (upload or sample) initializes the session while another load is in
\* progress.
C35_OneLoadAtATime ==
    [][/\ uploadsInProgress' \in {0, 1}
       /\ isUploading' <=> uploadsInProgress' = 1
       /\ (isUploading /\ handler'.name = "fileInputChange")
           => uploadsInProgress' = uploadsInProgress
       /\ handler'.name = "handleFileUpload"
           => ~isUploading' /\ uploadsInProgress' = 0
       /\ handler'.name = "handleSampleVocabulary"
           => uploadsInProgress = 0]_vars

\* C36: after a load of the sample the session is initialized with the
\* list, the list and the progress are stored, the quiz screen is shown and
\* getNextWord was the last call of the session; an upload never ends with
\* initialize as the last call of the session; and whenever the quiz screen
\* is shown and an item is unmastered the session has a current question.
C36_LoadedQuizHasQuestion ==
    /\ handler.name = "handleSampleVocabulary"
          => /\ Len(vocabulary) > 0
             /\ StoredIsSession
             /\ currentScreen = "quiz"
             /\ ret.op = "getNextWord"
    /\ handler.name = "handleFileUpload" => ret.op # "initialize"
    /\ (currentScreen = "quiz" /\ ~AllMastered)
          => hasCurrentWord(currentWord)

\* C37: a submitAnswer that succeeds does not directly follow initialize,
\* resetProgress or importState (its question is of a later getNextWord),
\* its current word is an item of the current vocabulary, and when the
\* answer is correct masteredWords has been raised by one.
C37_QuestionOfCurrentSession ==
    [][(ret'.op = "submitAnswer" /\ ~ret'.threw)
        => /\ ret.op \notin {"initialize", "resetProgress", "importState"}
                \/ ret.threw
           /\ currentWord.kind = "vocab"
           /\ ret'.result.isCorrect
                => /\ vocabulary'[currentWord.idx].mastered
                   /\ stats'.masteredWords = stats.masteredWords + 1]_vars

\* C38: in a quiz driven by initialize, getNextWord, submitAnswer and
\* resetProgress, 0 <= currentStreak <= correctAnswers <= totalAnswered
\* always, and currentStreak counts the correct answers since the last
\* incorrect answer or reset: a correct answer raises it by one, an
\* incorrect answer and resetProgress set it to 0, nothing else changes it.
C38_StreakCountsCorrectRun ==
    /\ [](/\ 0 <= stats.currentStreak
          /\ stats.currentStreak <= stats.correctAnswers
          /\ stats.correctAnswers <= stats.totalAnswered)
    /\ [][stats'.currentStreak =
              IF ret'.op = "submitAnswer" /\ ~ret'.threw
              THEN IF ret'.result.isCorrect
                   THEN stats.currentStreak + 1 ELSE 0
              ELSE IF ret'.op = "resetProgress" THEN 0
              ELSE stats.currentStreak]_vars

\* C38 witness: a correct answer after an incorrect one: the streak is 1
\* after two answers.
C38_Witness ==
    /\ ret.op = "submitAnswer" /\ ~ret.threw /\ ret.result.isCorrect
    /\ stats.totalAnswered = 2
    /\ stats.correctAnswers = 1
    /\ stats.currentStreak = 1

\* the rearrangements of an array
Rearrangements(array) ==
    { [i \in 1..Len(array) |-> array[f[i]]] :
          f \in Permutations(1..Len(array)) }

\* C39: the array shuffleArray returns has the length of its argument and
\* every element as often as the argument has it, the argument is as it was
\* before the call, and every rearrangement of the argument is an array the
\* call can return.
C39_ShuffleIsPermutation ==
    callResult.called
        => /\ Len(callResult.value) = Len(callArg.array)
           /\ \A x \in ShuffleElements :
                 Occurrences(callResult.value, x)
                     = Occurrences(callArg.array, x)
           /\ callResult.array = callArg.array
           /\ Rearrangements(callArg.array) \subseteq
                  shuffleArray(callArg.array)

\* C39 witness: an array with a repeated element came back in another order.
C39_Witness ==
    /\ callResult.called
    /\ callArg.array = << "cat", "cat", "dog", "house" >>
    /\ callResult.value = << "house", "cat", "dog", "cat" >>
====
